---- MODULE Spec2Model ----
(***************************************************************************)
(* Feature generation of QG/SQG_model SQG_train.py:                        *)
(*   read_data                 whitespace segmentation of a context        *)
(*   convert_data_to_features  [CLS] context [SEP] answer [SEP] + one      *)
(*                             masked feature per question subword         *)
(*   _check_is_max_context     owner span of a subword position            *)
(* Lists are 1-based sequences here; every index the program stores        *)
(* (label_pos, start, span_index, tok_to_orig_index ...) keeps its 0-based *)
(* Python value.                                                           *)
(***************************************************************************)
EXTENDS Integers, Sequences, FiniteSets, TLC

\* ---------------------------------------------------------------- bounds
MaxRecords == 1
MaxWords == 2
MaxSeqLength == 8
MaxContextLen == 4
MaxDocStride == 2

\* ------------------------------------------------------- program constants
SEP_ID == 102
MASK_ID == 103
IGNORE_ID == -1
NNBSP == 8239

Min(a, b) == IF a < b THEN a ELSE b

\* Seq(S) up to length n
SeqsUpTo(S, n) == UNION {[1..k -> S] : k \in 0..n}

\* ------------------------------------------------------------- tokenizer
\* The tokenizer collaborator (module tokenization of the repository).
\* A text is given as its list of whitespace separated words.
QuestionWords == {"where", "[SEP]"}
AnswerWords == {"france"}
DocWords == {"paris", "playing"}

WordPiece(word) == IF word = "playing" THEN <<"play", "##ing">> ELSE <<word>>

RECURSIVE tokenize(_)
tokenize(text) ==
    IF text = <<>> THEN <<>>
    ELSE WordPiece(Head(text)) \o tokenize(Tail(text))

VocabId(token) ==
    CASE token = "[PAD]" -> 0
      [] token = "[CLS]" -> 101
      [] token = "[SEP]" -> SEP_ID
      [] token = "[MASK]" -> MASK_ID
      [] token = "where" -> 2073
      [] token = "france" -> 2605
      [] token = "paris" -> 3000
      [] token = "play" -> 2377
      [] token = "##ing" -> 2075
      [] OTHER -> 100

convert_tokens_to_ids(toks) == [i \in 1..Len(toks) |-> VocabId(toks[i])]

\* ------------------------------------------------- _check_is_max_context
\* score = min(num_left_context, num_right_context) + 0.01 * doc_span.length
\* is computed in IEEE-754 double precision: the literal 0.01 is the double
\* Cent53 * 2^-59 with Cent53 = 5764607523034235, the product is rounded to
\* 53 significant bits, and the sum is rounded again.  A score is held as
\* the record [h, f] that stands for the double (Cent53 * h + f) * 2^-59,
\* with h the whole number of hundredths and f the offset the two roundings
\* leave; since 2^59 = 100 * Cent53 - CentExcess, the integer m is
\* [h |-> 100 * m, f |-> -CentExcess * m].  Only the low bits of Cent53
\* decide a rounding, so CentLow = Cent53 % 2^20 is enough for lengths and
\* scores below 2^11.
CentLow == 922747
CentExcess == 12

RECURSIVE Pow2(_)
Pow2(n) == IF n = 0 THEN 1 ELSE 2 * Pow2(n - 1)

\* round to nearest, ties to even: what is added to a significand when its
\* d low bits are dropped; low is the significand modulo 2^(d + 1)
RoundAdjust(low, d) ==
    IF d = 0 THEN 0
    ELSE LET r == low % Pow2(d)
             half == Pow2(d - 1)
             odd == low >= Pow2(d)
         IN IF r > half \/ (r = half /\ odd) THEN Pow2(d) - r ELSE 0 - r

\* the bits dropped from the exact product Cent53 * length: the greatest k
\* with Cent53 * length >= 2^(52 + k), that is 32 * length >= 25 * 2^k
RECURSIVE ProductShift(_, _)
ProductShift(length, k) ==
    IF 32 * length >= 25 * Pow2(k + 1) THEN ProductShift(length, k + 1) ELSE k

\* (Cent53 * h + f) * 2^-59 >= 2^k
SumAtLeast(h, f, k) ==
    h > 100 * Pow2(k) \/ (h = 100 * Pow2(k) /\ f + CentExcess * Pow2(k) >= 0)

\* the greatest k >= 0 with (Cent53 * h + f) * 2^-59 >= 2^k, for a sum >= 1
RECURSIVE SumShift(_, _, _)
SumShift(h, f, k) ==
    IF SumAtLeast(h, f, k + 1) THEN SumShift(h, f, k + 1) ELSE k

\* the double m + 0.01 * length, for integers m >= 0 and length >= 0
AddCents(m, length) ==
    LET d == ProductShift(length, 0)
        product_adjust == RoundAdjust((CentLow * length) % Pow2(d + 1), d)
        h == 100 * m + length
        exact == product_adjust - CentExcess * m
        bits == SumShift(h, exact, 0) + 7
        sum_adjust ==
            IF m = 0 THEN 0
            ELSE RoundAdjust((CentLow * length + product_adjust) % Pow2(bits + 1),
                             bits)
    IN [h |-> h, f |-> exact + sum_adjust]

SpanScore(doc_span, position) ==
    LET end == doc_span.start + doc_span.length - 1
        num_left_context == position - doc_span.start
        num_right_context == end - position
    IN AddCents(Min(num_left_context, num_right_context), doc_span.length)

SpanSkipped(doc_span, position) ==
    LET end == doc_span.start + doc_span.length - 1
    IN position < doc_span.start \/ position > end

\* score > best_score on doubles
ScoreGreater(a, b) == a.h > b.h \/ (a.h = b.h /\ a.f > b.f)

BetterScoreMutant(best, score) == best.none \/ ~ScoreGreater(best.score, score)

BetterScore(best, score) == best.none \/ ScoreGreater(score, best.score)

\* the loop over enumerate(doc_spans); i is the 1-based place of the span
\* whose span_index is i - 1
RECURSIVE MaxContextLoop(_, _, _, _)
MaxContextLoop(spans, position, i, best) ==
    IF i > Len(spans) THEN best
    ELSE IF SpanSkipped(spans[i], position)
         THEN MaxContextLoop(spans, position, i + 1, best)
         ELSE LET score == SpanScore(spans[i], position)
              IN IF BetterScore(best, score)
                 THEN MaxContextLoop(spans, position, i + 1,
                        [none |-> FALSE, score |-> score, span_index |-> i - 1])
                 ELSE MaxContextLoop(spans, position, i + 1, best)

NoBest == [none |-> TRUE, score |-> [h |-> 0, f |-> 0], span_index |-> -1]

BestSpan(spans, position) == MaxContextLoop(spans, position, 1, NoBest)

check_is_max_context(spans, cur_span_index, position) ==
    LET best == BestSpan(spans, position)
    IN ~best.none /\ cur_span_index = best.span_index

\* ------------------------------------------------------------- read_data
is_whitespace_mutant(c) == c = 32 \/ c = 9 \/ c = 13 \/ c = 10

is_whitespace(c) == c = 32 \/ c = 9 \/ c = 13 \/ c = 10 \/ c = NNBSP

\* the loop over the characters of entry["context"]
RECURSIVE SegmentLoop(_, _, _, _)
SegmentLoop(context, i, toks, prev_is_whitespace) ==
    IF i > Len(context) THEN toks
    ELSE IF is_whitespace(context[i])
         THEN SegmentLoop(context, i + 1, toks, TRUE)
         ELSE IF prev_is_whitespace
              THEN SegmentLoop(context, i + 1, Append(toks, <<context[i]>>), FALSE)
              ELSE SegmentLoop(context, i + 1,
                     [toks EXCEPT ![Len(toks)] = Append(toks[Len(toks)], context[i])],
                     FALSE)

doc_tokens_of(context) == SegmentLoop(context, 1, <<>>, TRUE)

\* ----------------------------------------------- convert_data_to_features
VARIABLES
    max_seq_length, doc_stride, max_query_length, max_answer_length,
    index, ele, query_tokens, answer_tokens,
    all_doc_tokens, tok_to_orig_index, orig_to_tok_index,
    max_tokens_for_doc, doc_spans, start_offset,
    tokens, token_is_max_context, segment_ids, input_ids, input_mask,
    label_pos, output_ids, oi,
    features, feature_index, pc, error

\* read_data taken alone; the calls of _check_is_max_context
VARIABLES
    rd_context, rd_doc_tokens, rd_again, rd_pc,
    mc_doc_spans, mc_position, mc_result, mc_pc

config == <<max_seq_length, doc_stride, max_query_length, max_answer_length>>
record == <<index, ele, query_tokens, answer_tokens>>
docvars == <<all_doc_tokens, tok_to_orig_index, orig_to_tok_index>>
winvars == <<max_tokens_for_doc, doc_spans, start_offset>>
basevars == <<tokens, token_is_max_context, output_ids>>
runvars == <<segment_ids, input_ids, input_mask, label_pos, oi>>
outvars == <<features, feature_index>>
cvars == <<config, record, docvars, winvars, basevars, runvars, outvars, pc, error>>
rdvars == <<rd_context, rd_doc_tokens, rd_again, rd_pc>>
mcvars == <<mc_doc_spans, mc_position, mc_result, mc_pc>>
vars == <<cvars, rdvars, mcvars>>

ErrQuery == "error query_tokens > max_query_length"
ErrAnswer == "error answer_tokens > max_answer_length"
ErrContext == "error context_tokens > doc_stride"

Records ==
    [question_text : SeqsUpTo(QuestionWords, MaxWords),
     answers_text : SeqsUpTo(AnswerWords, MaxWords - 1),
     doc_tokens : SeqsUpTo(DocWords, MaxWords)]

DocStrides == {1, 2}

\* more spans than any terminating run of the window loop can produce
MaxSpans == 2 * MaxWords + 1

\* the locals of one iteration of the loop over data, before it assigns them
LocalsUnset ==
    /\ all_doc_tokens = <<>> /\ tok_to_orig_index = <<>> /\ orig_to_tok_index = <<>>
    /\ max_tokens_for_doc = 0 /\ doc_spans = <<>> /\ start_offset = 0
    /\ tokens = <<>> /\ token_is_max_context = <<>> /\ output_ids = <<>>
    /\ segment_ids = <<>> /\ input_ids = <<>> /\ input_mask = <<>>
    /\ label_pos = 0 /\ oi = 0

ConvertIdle ==
    /\ max_seq_length = 0 /\ doc_stride = 0
    /\ max_query_length = 0 /\ max_answer_length = 0
    /\ index = -1
    /\ ele = [question_text |-> <<>>, answers_text |-> <<>>, doc_tokens |-> <<>>]
    /\ query_tokens = <<>> /\ answer_tokens = <<>>
    /\ LocalsUnset
    /\ features = <<>> /\ feature_index = <<>>
    /\ error = ""

ReadIdle ==
    /\ rd_context = <<>> /\ rd_doc_tokens = <<>> /\ rd_again = <<>>

MaxContextIdle ==
    /\ mc_doc_spans = <<>> /\ mc_position = 0 /\ mc_result = <<>>

\* a maximum length below zero, which the command line accepts
NegativeLengths == {-1}

\* state at the call convert_data_to_features(data, tokenizer, ...)
Init ==
    /\ max_seq_length \in (MaxSeqLength - 1)..MaxSeqLength
    /\ doc_stride \in DocStrides
    /\ max_query_length \in NegativeLengths \cup ((MaxWords - 1)..MaxWords)
    /\ max_answer_length \in NegativeLengths \cup ((MaxWords - 2)..(MaxWords - 1))
    /\ index = -1
    /\ ele = [question_text |-> <<>>, answers_text |-> <<>>, doc_tokens |-> <<>>]
    /\ query_tokens = <<>> /\ answer_tokens = <<>>
    /\ LocalsUnset
    /\ features = <<>> /\ feature_index = <<>>
    /\ error = ""
    /\ pc = "loop"
    /\ ReadIdle /\ rd_pc = "off"
    /\ MaxContextIdle /\ mc_pc = "off"

\* for (index, ele) in enumerate(data): tokenize question and answer
NextRecord ==
    /\ UNCHANGED <<rdvars, mcvars>>
    /\ pc = "loop"
    /\ index + 1 < MaxRecords
    /\ \E r \in Records :
        /\ ele' = r
        /\ query_tokens' = tokenize(r.question_text)
        /\ answer_tokens' = tokenize(r.answers_text)
    /\ index' = index + 1
    /\ all_doc_tokens' = <<>> /\ tok_to_orig_index' = <<>> /\ orig_to_tok_index' = <<>>
    /\ max_tokens_for_doc' = 0 /\ doc_spans' = <<>> /\ start_offset' = 0
    /\ tokens' = <<>> /\ token_is_max_context' = <<>> /\ output_ids' = <<>>
    /\ segment_ids' = <<>> /\ input_ids' = <<>> /\ input_mask' = <<>>
    /\ label_pos' = 0 /\ oi' = 0
    /\ pc' = "check_query"
    /\ UNCHANGED <<config, outvars, error>>

\* data exhausted: return features
ReturnFeatures ==
    /\ UNCHANGED <<rdvars, mcvars>>
    /\ pc = "loop"
    /\ pc' = "returned"
    /\ UNCHANGED <<config, record, docvars, winvars, basevars, runvars, outvars, error>>

OverLengthMutant(toks, max_length) == Len(toks) >= max_length

OverLength(toks, max_length) == Len(toks) > max_length

\* toks[0:max_length]: a negative max_length counts from the end of the list
Truncate(toks, max_length) ==
    IF max_length >= 0
    THEN SubSeq(toks, 1, Min(Len(toks), max_length))
    ELSE IF Len(toks) + max_length > 0
         THEN SubSeq(toks, 1, Len(toks) + max_length)
         ELSE <<>>

CheckQuery ==
    /\ UNCHANGED <<rdvars, mcvars>>
    /\ pc = "check_query"
    /\ IF OverLength(query_tokens, max_query_length)
       THEN /\ query_tokens' = Truncate(query_tokens, max_query_length)
            /\ error' = ErrQuery
            /\ pc' = "exit"
       ELSE /\ pc' = "check_answer"
            /\ UNCHANGED <<query_tokens, error>>
    /\ UNCHANGED <<config, index, ele, answer_tokens, docvars, winvars, basevars,
                   runvars, outvars>>

CheckAnswer ==
    /\ UNCHANGED <<rdvars, mcvars>>
    /\ pc = "check_answer"
    /\ IF OverLength(answer_tokens, max_answer_length)
       THEN /\ answer_tokens' = Truncate(answer_tokens, max_answer_length)
            /\ error' = ErrAnswer
            /\ pc' = "exit"
       ELSE /\ pc' = "tokenize_doc"
            /\ UNCHANGED <<answer_tokens, error>>
    /\ UNCHANGED <<config, index, ele, query_tokens, docvars, winvars, basevars,
                   runvars, outvars>>

\* the loop over enumerate(ele.doc_tokens); acc = [all, t2o, o2t]
RECURSIVE DocLoop(_, _, _)
DocLoop(words, i, acc) ==
    IF i > Len(words) THEN acc
    ELSE LET sub_tokens == WordPiece(words[i])
         IN DocLoop(words, i + 1,
              [all |-> acc.all \o sub_tokens,
               t2o |-> acc.t2o \o [j \in 1..Len(sub_tokens) |-> i - 1],
               o2t |-> Append(acc.o2t, Len(acc.all))])

MaxTokensForDocMutant(seq_length, answers, query) ==
    seq_length - Len(answers) - Len(query) - 3

MaxTokensForDoc(seq_length, answers, query) ==
    seq_length - Len(answers) - Len(query) - 4

TokenizeDoc ==
    /\ UNCHANGED <<rdvars, mcvars>>
    /\ pc = "tokenize_doc"
    /\ LET acc == DocLoop(ele.doc_tokens, 1, [all |-> <<>>, t2o |-> <<>>, o2t |-> <<>>])
       IN /\ all_doc_tokens' = acc.all
          /\ tok_to_orig_index' = acc.t2o
          /\ orig_to_tok_index' = acc.o2t
    /\ max_tokens_for_doc' = MaxTokensForDoc(max_seq_length, answer_tokens, query_tokens)
    /\ doc_spans' = <<>>
    /\ start_offset' = 0
    /\ pc' = "window"
    /\ UNCHANGED <<config, record, basevars, runvars, outvars, error>>

SpanLengthMutant(remaining, budget) == budget

SpanLength(remaining, budget) == IF remaining > budget THEN budget ELSE remaining

ReachesEndMutant(start, length, total) == start + length > total

ReachesEnd(start, length, total) == start + length = total

\* one iteration of: while start_offset < len(all_doc_tokens)
WindowStep ==
    /\ UNCHANGED <<rdvars, mcvars>>
    /\ pc = "window"
    /\ start_offset < Len(all_doc_tokens)
    /\ Len(doc_spans) < MaxSpans
    /\ LET length == SpanLength(Len(all_doc_tokens) - start_offset, max_tokens_for_doc)
       IN /\ doc_spans' = Append(doc_spans, [start |-> start_offset, length |-> length])
          /\ IF ReachesEnd(start_offset, length, Len(all_doc_tokens))
             THEN /\ pc' = "span_check"
                  /\ UNCHANGED start_offset
             ELSE /\ start_offset' = start_offset + Min(length, doc_stride)
                  /\ pc' = "window"
    /\ UNCHANGED <<config, record, docvars, max_tokens_for_doc, basevars, runvars,
                   outvars, error>>

\* the while condition is false
WindowEnd ==
    /\ UNCHANGED <<rdvars, mcvars>>
    /\ pc = "window"
    /\ start_offset >= Len(all_doc_tokens)
    /\ pc' = "span_check"
    /\ UNCHANGED <<config, record, docvars, winvars, basevars, runvars, outvars, error>>

\* the loop has run longer than any terminating run can: it goes on
\* appending spans without end
WindowUnbounded ==
    /\ UNCHANGED <<rdvars, mcvars>>
    /\ pc = "window"
    /\ start_offset < Len(all_doc_tokens)
    /\ Len(doc_spans) >= MaxSpans
    /\ pc' = "window_unbounded"
    /\ UNCHANGED <<config, record, docvars, winvars, basevars, runvars, outvars, error>>

\* if len(doc_spans) > 1: exit(); then for doc_span in doc_spans
SpanCheck ==
    /\ UNCHANGED <<rdvars, mcvars>>
    /\ pc = "span_check"
    /\ IF Len(doc_spans) > 1
       THEN error' = ErrContext /\ pc' = "exit"
       ELSE /\ UNCHANGED error
            /\ pc' = IF Len(doc_spans) = 0 THEN "loop" ELSE "build"
    /\ UNCHANGED <<config, record, docvars, winvars, basevars, runvars, outvars>>

Repeat(x, n) == [i \in 1..n |-> x]

BaseSegmentIdsMutant(doc_length, answers) ==
    Repeat(0, doc_length + 2) \o Repeat(1, Len(answers)) \o <<0>>

BaseSegmentIds(doc_length, answers) ==
    Repeat(0, doc_length + 2) \o Repeat(1, Len(answers) + 1)

BaseTokens(doc_span, doc, answers) ==
    <<"[CLS]">> \o [i \in 1..doc_span.length |-> doc[doc_span.start + i]]
        \o <<"[SEP]">> \o answers \o <<"[SEP]">>

ZeroPadMutant(s, n) == IF Len(s) <= n THEN s \o Repeat(0, n + 1 - Len(s)) ELSE s

\* while len(s) < n: s.append(0)
ZeroPad(s, n) == IF Len(s) < n THEN s \o Repeat(0, n - Len(s)) ELSE s

\* lines 173-222 for the one span: base sequence, ids, padding, assertions
BuildBase ==
    /\ UNCHANGED <<rdvars, mcvars>>
    /\ pc = "build"
    /\ LET doc_span == doc_spans[1]
           toks == BaseTokens(doc_span, all_doc_tokens, answer_tokens)
           ids == convert_tokens_to_ids(toks)
           padded_ids == ZeroPad(ids, max_seq_length)
           padded_mask == ZeroPad(Repeat(1, Len(ids)), max_seq_length)
           padded_seg == ZeroPad(BaseSegmentIds(doc_span.length, answer_tokens),
                                 max_seq_length)
       IN /\ tokens' = toks
          /\ token_is_max_context' =
                [i \in 1..doc_span.length |->
                    check_is_max_context(doc_spans, 0, doc_span.start + i - 1)]
          /\ output_ids' = convert_tokens_to_ids(query_tokens \o <<"[SEP]">>)
          /\ label_pos' = Len(ids)
          /\ input_ids' = padded_ids
          /\ input_mask' = padded_mask
          /\ segment_ids' = padded_seg
          /\ pc' = IF /\ Len(padded_ids) = max_seq_length
                      /\ Len(padded_mask) = max_seq_length
                      /\ Len(padded_seg) = max_seq_length
                   THEN "expand" ELSE "assertion_error"
    /\ oi' = 1
    /\ UNCHANGED <<config, record, docvars, winvars, outvars, error>>

LabelIdsMutant(n, pos, id) == [i \in 1..n |-> IF i = pos THEN id ELSE IGNORE_ID]

\* label_ids = [-1] * n; label_ids[pos] = id
LabelIds(n, pos, id) == [i \in 1..n |-> IF i = pos + 1 THEN id ELSE IGNORE_ID]

\* s[pos] = v
Put(s, pos, v) == [s EXCEPT ![pos + 1] = v]

IsTerminalMutant(output_id) == FALSE

\* if output_id == 102: break
IsTerminal(output_id) == output_id = SEP_ID

SlotSegment == 2

RevealedIdMutant(output_id) == MASK_ID

\* input_ids[label_pos] = output_id: the running sequence gets the real id
RevealedId(output_id) == output_id

\* one iteration of: for output_id in output_ids
ExpandStep ==
    /\ UNCHANGED <<rdvars, mcvars>>
    /\ pc = "expand"
    /\ oi <= Len(output_ids)
    /\ LET output_id == output_ids[oi]
       IN IF label_pos >= max_seq_length
          THEN /\ pc' = "index_error"
               /\ UNCHANGED <<runvars, outvars>>
          ELSE /\ features' = Append(features,
                    [tokens |-> tokens,
                     input_ids |-> Put(input_ids, label_pos, MASK_ID),
                     input_mask |-> Put(input_mask, label_pos, 1),
                     segment_ids |-> Put(segment_ids, label_pos, SlotSegment),
                     output_ids |-> LabelIds(max_seq_length, label_pos, output_id)])
               /\ feature_index' = Append(feature_index, index)
               /\ IF IsTerminal(output_id)
                  THEN /\ pc' = "loop"
                       /\ UNCHANGED runvars
                  ELSE /\ input_ids' = Put(input_ids, label_pos, RevealedId(output_id))
                       /\ input_mask' = Put(input_mask, label_pos, 1)
                       /\ segment_ids' = Put(segment_ids, label_pos, SlotSegment)
                       /\ label_pos' = label_pos + 1
                       /\ oi' = oi + 1
                       /\ pc' = IF oi = Len(output_ids) THEN "loop" ELSE "expand"
    /\ UNCHANGED <<config, record, docvars, winvars, basevars, error>>

Next ==
    \/ NextRecord \/ ReturnFeatures
    \/ CheckQuery \/ CheckAnswer
    \/ TokenizeDoc
    \/ WindowStep \/ WindowEnd \/ WindowUnbounded
    \/ SpanCheck
    \/ BuildBase
    \/ ExpandStep

Spec == Init /\ [][Next]_vars

\* --------------------------------------------------- read_data taken alone
\* code points: space, tab, CR, LF, U+202F, "a", U+00A0
Chars == {32, 9, 13, 10, NNBSP, 97, 160}

InitRead ==
    /\ ConvertIdle /\ pc = "off"
    /\ MaxContextIdle /\ mc_pc = "off"
    /\ rd_context \in SeqsUpTo(Chars, MaxContextLen)
    /\ rd_doc_tokens = <<>>
    /\ rd_again = <<>>
    /\ rd_pc = "start"

\* " ".join(toks)
RECURSIVE JoinSpace(_)
JoinSpace(toks) ==
    IF toks = <<>> THEN <<>>
    ELSE IF Len(toks) = 1 THEN toks[1]
    ELSE toks[1] \o <<32>> \o JoinSpace(Tail(toks))

\* the segmentation of entry["context"]
ReadContext ==
    /\ UNCHANGED <<cvars, mcvars>>
    /\ rd_pc = "start"
    /\ rd_doc_tokens' = doc_tokens_of(rd_context)
    /\ rd_pc' = "read"
    /\ UNCHANGED <<rd_context, rd_again>>

\* the segmentation of the doc_tokens joined by single spaces
ReadAgain ==
    /\ UNCHANGED <<cvars, mcvars>>
    /\ rd_pc = "read"
    /\ rd_again' = doc_tokens_of(JoinSpace(rd_doc_tokens))
    /\ rd_pc' = "again"
    /\ UNCHANGED <<rd_context, rd_doc_tokens>>

NextRead == ReadContext \/ ReadAgain

SpecRead == InitRead /\ [][NextRead]_vars


\* ================================================================ claims
\* the record `index` has been processed to the end of the loop body
RecordDone == index >= 0 /\ pc = "loop"

\* places in features of the features emitted for record r
FeaturesOf(r) == {j \in 1..Len(features) : feature_index[j] = r}

\* the i-th (1-based) feature emitted for record r
NthFeature(r, i) ==
    features[Cardinality({j \in 1..Len(features) : feature_index[j] < r}) + i]

\* 0-based indices of the entries of a label list that are not -1
LabelPositions(f) == {p \in 0..(Len(f.output_ids) - 1) : f.output_ids[p + 1] # -1}

\* the feature has one label, id, at 0-based index pos
SingleLabel(f, pos, id) ==
    /\ LabelPositions(f) = {pos}
    /\ f.output_ids[pos + 1] = id

\* 1-based place of the first [SEP] id of a target id sequence
FirstSep(ids) == CHOOSE i \in 1..Len(ids) :
                    /\ ids[i] = 102
                    /\ \A j \in 1..(i - 1) : ids[j] # 102

\* the record has k features, the i-th of them labelled with the target id
\* ids[i] at labelPos_base + i
EmitsPrefix(r, ids, k, base) ==
    /\ Cardinality(FeaturesOf(r)) = k
    /\ \A i \in 0..(k - 1) : SingleLabel(NthFeature(r, i + 1), base + i, ids[i + 1])

\* C1 as stated: a record with a single doc span and k target ids (question
\* subword ids, then the [SEP] id) has exactly k features, in target order,
\* feature i labelled only at labelPos_base + i, with the i-th target id.
C1_OneFeaturePerTargetId ==
    (RecordDone /\ Len(doc_spans) = 1) =>
        EmitsPrefix(index, output_ids, Len(output_ids), Len(tokens))

\* C1 amended: a record with a single doc span has exactly one feature per
\* target id up to and including the first [SEP] id (102) of the target
\* sequence, in target order, feature i labelled only at labelPos_base + i
\* with the i-th target id; that is k features when no question subword has
\* the id 102.
C1_OneFeaturePerTargetIdUpToSep ==
    (RecordDone /\ Len(doc_spans) = 1) =>
        /\ EmitsPrefix(index, output_ids, FirstSep(output_ids), Len(tokens))
        /\ ((\A i \in 1..(Len(output_ids) - 1) : output_ids[i] # 102)
               => Cardinality(FeaturesOf(index)) = Len(output_ids))

C1_Witness ==
    /\ RecordDone /\ Len(doc_spans) = 1
    /\ Len(output_ids) = 3
    /\ Cardinality(FeaturesOf(index)) = 3
    /\ Len(all_doc_tokens) >= 2

\* C2: every emitted feature has input_ids, input_mask, segment_ids and
\* output_ids of length max_seq_length, and no length assertion fails.
C2_FeatureLengths ==
    /\ pc # "assertion_error"
    /\ \A j \in 1..Len(features) :
          /\ Len(features[j].input_ids) = max_seq_length
          /\ Len(features[j].input_mask) = max_seq_length
          /\ Len(features[j].segment_ids) = max_seq_length
          /\ Len(features[j].output_ids) = max_seq_length

C2_Witness ==
    /\ RecordDone
    /\ Len(features) >= 2
    /\ Len(tokens) + Len(features) < max_seq_length
    /\ Len(features[1].input_ids) = max_seq_length

\* the id a feature is labelled with
LabelOf(f) == f.output_ids[(CHOOSE p \in LabelPositions(f) : TRUE) + 1]

IsLastOfItsRecord(j) ==
    j = Len(features) \/ feature_index[j + 1] # feature_index[j]

RecordFinished(r) == r < index \/ (r = index /\ pc \in {"loop", "returned"})

\* C3: the last feature of a record that produces features is labelled with
\* the [SEP] id 102, no feature of the record follows it and no earlier
\* feature of the record is labelled 102.
C3_SepLabelIsLast ==
    \A j \in 1..Len(features) :
        /\ LabelPositions(features[j]) # {}
        /\ LabelOf(features[j]) = 102 => IsLastOfItsRecord(j)
        /\ LabelOf(features[j]) = 102 => RecordFinished(feature_index[j])
        /\ (IsLastOfItsRecord(j) /\ RecordFinished(feature_index[j]))
              => LabelOf(features[j]) = 102

C3_Witness ==
    /\ RecordDone
    /\ Len(output_ids) = 3 /\ output_ids[2] = 102 /\ output_ids[1] # 102
    /\ Cardinality(FeaturesOf(index)) = 2
    /\ LabelOf(NthFeature(index, 2)) = 102

\* 0-based indices at which a list holds v
IndicesOf(s, v) == {p \in 0..(Len(s) - 1) : s[p + 1] = v}

\* 0-based index of the label of a feature
LabelPosOf(f) == CHOOSE p \in LabelPositions(f) : TRUE

\* segment ids of the base input: 0 on [CLS], the context and its [SEP],
\* 1 on the answer and its [SEP]
BaseSegmentsAsSpecified(f) ==
    LET doc_end == doc_spans[1].length + 2
        base == Len(tokens)
    IN /\ base = doc_end + Len(answer_tokens) + 1
       /\ \A p \in 0..(doc_end - 1) : f.segment_ids[p + 1] = 0
       /\ \A p \in doc_end..(base - 1) : f.segment_ids[p + 1] = 1

\* C4 as stated: in every feature segment id 2 is at exactly one index, the
\* one holding the mask id and the label; 0 on [CLS], context and its [SEP],
\* 1 on the answer and its [SEP].
C4_SlotIsOnlySegment2 ==
    \A j \in FeaturesOf(index) :
        LET f == features[j]
        IN /\ BaseSegmentsAsSpecified(f)
           /\ IndicesOf(f.segment_ids, 2) = {LabelPosOf(f)}
           /\ f.input_ids[LabelPosOf(f) + 1] = 103

\* C4 amended: in every feature segment_ids is 0 on [CLS], the context and
\* its [SEP], 1 on the answer and its [SEP], 2 on every index from
\* labelPos_base up to and including pos (the question subwords revealed so
\* far and the current slot) and 0 above pos; pos, the greatest index with
\* segment id 2, is the one that holds the label and the mask id.
C4_Segment2IsPrefixAndSlot ==
    \A j \in FeaturesOf(index) :
        LET f == features[j]
            pos == LabelPosOf(f)
        IN /\ BaseSegmentsAsSpecified(f)
           /\ IndicesOf(f.segment_ids, 2) = Len(tokens)..pos
           /\ pos >= Len(tokens)
           /\ \A p \in (pos + 1)..(Len(f.segment_ids) - 1) : f.segment_ids[p + 1] = 0
           /\ f.input_ids[pos + 1] = 103

C4_Witness ==
    /\ RecordDone
    /\ Cardinality(FeaturesOf(index)) = 3
    /\ Len(answer_tokens) >= 1
    /\ Cardinality(IndicesOf(NthFeature(index, 3).segment_ids, 2)) = 3
    /\ Cardinality(IndicesOf(NthFeature(index, 3).segment_ids, 1)) = 2

QuestionOver == Len(tokenize(ele.question_text)) > max_query_length
AnswerOver == Len(tokenize(ele.answers_text)) > max_answer_length

\* kept is the prefix of toks of max_length tokens when max_length is a
\* length; a bound below zero leaves the prefix without the last -max_length
\* tokens
CutTo(kept, toks, max_length) ==
    /\ Len(kept) <= Len(toks)
    /\ kept = SubSeq(toks, 1, Len(kept))
    /\ Len(kept) = IF max_length >= 0 THEN max_length
                   ELSE IF Len(toks) > 0 - max_length THEN Len(toks) - (0 - max_length)
                   ELSE 0

\* C5: a record whose question has more than max_query_length subwords or
\* whose answer has more than max_answer_length ends in the over-length
\* exit, after the truncation, with no feature of the record; a record with
\* counts equal to the bounds is not rejected by the check.
C5_OverLengthRejected ==
    index >= 0 =>
        /\ QuestionOver =>
              \/ pc = "check_query"
              \/ /\ pc = "exit" /\ error = ErrQuery
                 /\ CutTo(query_tokens, tokenize(ele.question_text), max_query_length)
        /\ (~QuestionOver /\ AnswerOver) =>
              \/ pc \in {"check_query", "check_answer"}
              \/ /\ pc = "exit" /\ error = ErrAnswer
                 /\ CutTo(answer_tokens, tokenize(ele.answers_text), max_answer_length)
        /\ (QuestionOver \/ AnswerOver) => FeaturesOf(index) = {}
        /\ (~QuestionOver /\ ~AnswerOver) => error \notin {ErrQuery, ErrAnswer}
        /\ (~QuestionOver /\ ~AnswerOver /\ pc = "exit") => error = ErrContext

C5_Witness ==
    /\ pc = "exit" /\ error = ErrAnswer
    /\ Len(tokenize(ele.question_text)) = max_query_length
    /\ Len(tokenize(ele.answers_text)) = max_answer_length + 1
    /\ Len(answer_tokens) = max_answer_length

\* max_tokens_for_doc of the record has been computed
BudgetKnown ==
    /\ index >= 0
    /\ pc \in {"window", "window_unbounded", "span_check", "build", "expand",
               "assertion_error", "index_error", "loop", "returned"}
          \/ (pc = "exit" /\ error = ErrContext)

\* C6: a record whose context has more subwords than max_tokens_for_doc ends
\* in the multi-span exit and no feature is built from a window of it.
C6_MultiSpanRejected ==
    (BudgetKnown /\ Len(all_doc_tokens) > max_tokens_for_doc) =>
        /\ \/ pc \in {"window", "span_check"}
           \/ pc = "exit" /\ error = ErrContext
        /\ FeaturesOf(index) = {}

\* C7: a record with max_tokens_for_doc <= 0 ends in an error: it neither
\* goes on to the end of the loop body, nor to the expansion, nor keeps
\* running in the window loop.
C7_NonPositiveBudgetRejected ==
    (BudgetKnown /\ max_tokens_for_doc <= 0) =>
        \/ pc \in {"window", "span_check"}
        \/ pc = "exit"

\* the window loop of the record is over
WindowDone ==
    /\ index >= 0
    /\ pc \in {"span_check", "build", "expand", "loop", "returned"}
          \/ (pc = "exit" /\ error = ErrContext)

\* C8 as stated: a document with totalSubwordCount <= maxTokensForDoc gives
\* exactly one span, {start = 0, length = totalSubwordCount}.
C8_OneSpan ==
    (WindowDone /\ Len(all_doc_tokens) <= max_tokens_for_doc) =>
        doc_spans = <<[start |-> 0, length |-> Len(all_doc_tokens)]>>

\* C8 amended: a document with 1 <= totalSubwordCount <= maxTokensForDoc
\* gives exactly one span, {start = 0, length = totalSubwordCount}; a
\* document with no subword gives no span (and no feature).
C8_OneSpanUnlessEmpty ==
    /\ (BudgetKnown /\ Len(all_doc_tokens) >= 1
          /\ Len(all_doc_tokens) <= max_tokens_for_doc) =>
          /\ pc # "window_unbounded"
          /\ Len(doc_spans) <= 1
          /\ WindowDone =>
                doc_spans = <<[start |-> 0, length |-> Len(all_doc_tokens)]>>
    /\ (WindowDone /\ Len(all_doc_tokens) = 0) =>
          /\ doc_spans = <<>>
          /\ FeaturesOf(index) = {}

C8_Witness ==
    /\ pc = "span_check"
    /\ Len(all_doc_tokens) = max_tokens_for_doc
    /\ Len(all_doc_tokens) >= 2
    /\ doc_stride < Len(all_doc_tokens)
    /\ Len(doc_spans) = 1

\* 1-based places of the spans that contain the position
Covering(spans, position) ==
    {i \in 1..Len(spans) :
        /\ spans[i].start <= position
        /\ position <= spans[i].start + spans[i].length - 1}

\* no covering span has a greater score than spans[i], and none before it
\* has the same score; the score is the one line 300 computes
IsOwner(spans, position, i) ==
    /\ i \in Covering(spans, position)
    /\ \A j \in Covering(spans, position) :
          /\ ~ScoreGreater(SpanScore(spans[j], position), SpanScore(spans[i], position))
          /\ SpanScore(spans[j], position) = SpanScore(spans[i], position) => i <= j

\* C9: for a position covered by at least one span, _check_is_max_context is
\* true for exactly one span index: the lowest index among the covering spans
\* that attain the greatest score min(position - start, end - position)
\* + 0.01 * length; a later span with an equal score does not replace an
\* earlier one.  The call the program makes, for the one span that passes the
\* span check, is true at every position of the span.
C9_OneOwner ==
    /\ (mc_pc = "done" /\ Covering(mc_doc_spans, mc_position) # {}) =>
          /\ Cardinality({i \in 1..Len(mc_doc_spans) : mc_result[i]}) = 1
          /\ \A i \in 1..Len(mc_doc_spans) :
                mc_result[i] <=> IsOwner(mc_doc_spans, mc_position, i)
    /\ pc \in {"expand", "assertion_error"} =>
          token_is_max_context = [i \in 1..doc_spans[1].length |-> TRUE]

\* two different spans cover the position with the same greatest score and
\* the earlier one owns it
C9_Witness ==
    /\ mc_pc = "done"
    /\ \E i, j \in Covering(mc_doc_spans, mc_position) :
          /\ i < j
          /\ mc_doc_spans[i] # mc_doc_spans[j]
          /\ SpanScore(mc_doc_spans[i], mc_position) = SpanScore(mc_doc_spans[j], mc_position)
          /\ mc_result[i]
          /\ ~mc_result[j]

WhitespaceChars == {32, 9, 13, 10, 8239}

\* C10: the doc_tokens of a context, joined by single spaces and segmented
\* again, give the same doc_tokens; no token is empty or holds a whitespace
\* character (space, tab, CR, LF, U+202F).
C10_SegmentationIdempotent ==
    /\ rd_pc = "again" => rd_again = rd_doc_tokens
    /\ \A i \in 1..Len(rd_doc_tokens) :
          /\ rd_doc_tokens[i] # <<>>
          /\ \A k \in 1..Len(rd_doc_tokens[i]) :
                rd_doc_tokens[i][k] \notin WhitespaceChars

C10_Witness ==
    /\ rd_pc = "again"
    /\ Len(rd_doc_tokens) = 2
    /\ rd_context # JoinSpace(rd_doc_tokens)
    /\ \E i \in 1..Len(rd_context) : rd_context[i] = 8239
    /\ rd_again = rd_doc_tokens

\* C11: teacher forcing. In feature i of a record (pos = labelPos_base + i)
\* input_ids holds the mask id 103 at pos, the real j-th target id at
\* labelPos_base + j for every j < i, the base input ids below labelPos_base
\* and 0 above pos; input_mask is 1 at exactly the indices 0..pos.
C11_TeacherForcing ==
    \A i \in 0..(Cardinality(FeaturesOf(index)) - 1) :
        LET f == NthFeature(index, i + 1)
            base == Len(tokens)
            pos == base + i
        IN /\ f.input_ids[pos + 1] = 103
           /\ \A j \in 0..(i - 1) : f.input_ids[base + j + 1] = output_ids[j + 1]
           /\ \A p \in 0..(base - 1) : f.input_ids[p + 1] = VocabId(tokens[p + 1])
           /\ \A p \in (pos + 1)..(Len(f.input_ids) - 1) : f.input_ids[p + 1] = 0
           /\ IndicesOf(f.input_mask, 1) = 0..pos
           /\ IndicesOf(f.input_mask, 0) = (pos + 1)..(Len(f.input_mask) - 1)

C11_Witness ==
    /\ RecordDone
    /\ Cardinality(FeaturesOf(index)) = 3
    /\ LET f == NthFeature(index, 3)
           base == Len(tokens)
       IN /\ base >= 4
          /\ f.input_ids[base + 1] = 2073
          /\ f.input_ids[base + 2] = 2073
          /\ f.input_ids[base + 3] = 103
          /\ base + 3 < Len(f.input_ids)

\* C12: for a record that passes the over-length and multi-span checks the
\* cursor label_pos is within 0..max_seq_length - 1 at every write of the
\* expansion (labelPos_base + number of target ids <= max_seq_length): no
\* write is out of range and the unpadded input is no longer than
\* max_seq_length.
C12_LabelPosInRange ==
    /\ pc # "index_error"
    /\ pc = "expand" =>
          /\ oi \in 1..Len(output_ids)
          /\ label_pos = Len(tokens) + oi - 1
          /\ label_pos \in 0..(max_seq_length - 1)
    /\ (pc = "expand" \/ (RecordDone /\ Len(doc_spans) = 1)) =>
          /\ Len(tokens) <= max_seq_length
          /\ Len(tokens) + Len(output_ids) <= max_seq_length
    /\ \A j \in FeaturesOf(index) :
          LabelPosOf(features[j]) \in Len(tokens)..(max_seq_length - 1)

C12_Witness ==
    /\ pc = "expand"
    /\ oi = Len(output_ids) /\ oi >= 2
    /\ label_pos = max_seq_length - 1
    /\ Len(all_doc_tokens) = max_tokens_for_doc
    /\ Cardinality(FeaturesOf(index)) = oi - 1

\* ------------------------------------------------ the window loop taken alone
\* a record that has passed the length checks, under any sequence length
\* and stride the command line accepts
InitWindow ==
    /\ ReadIdle /\ rd_pc = "off"
    /\ MaxContextIdle /\ mc_pc = "off"
    /\ max_seq_length \in (MaxSeqLength - 4)..MaxSeqLength
    /\ doc_stride \in 0..MaxDocStride
    /\ max_query_length = MaxWords
    /\ max_answer_length = MaxWords - 1
    /\ index = 0
    /\ ele \in Records
    /\ query_tokens = tokenize(ele.question_text)
    /\ answer_tokens = tokenize(ele.answers_text)
    /\ LocalsUnset
    /\ features = <<>> /\ feature_index = <<>>
    /\ error = ""
    /\ pc = "tokenize_doc"

NextWindow == TokenizeDoc \/ WindowStep \/ WindowEnd \/ WindowUnbounded

\* the loop is sequential code: it takes its next step whenever it has one
SpecWindow == InitWindow /\ [][NextWindow]_vars /\ WF_vars(NextWindow)

\* ------------------------- _check_is_max_context on the lists the loop builds
\* _check_is_max_context(doc_spans, cur_span_index, position) for every
\* cur_span_index of the list the window loop has built, at a subword
\* position of the document or the one after its end
MaxContextOfAll ==
    /\ UNCHANGED <<cvars, rdvars>>
    /\ pc = "span_check"
    /\ mc_pc = "off"
    /\ \E position \in 0..Len(all_doc_tokens) :
        /\ mc_position' = position
        /\ mc_result' = [i \in 1..Len(doc_spans) |->
                            check_is_max_context(doc_spans, i - 1, position)]
    /\ mc_doc_spans' = doc_spans
    /\ mc_pc' = "done"

\* the same with a cur_span_index that is no index of the list
MaxContextOfNone ==
    /\ UNCHANGED <<cvars, rdvars>>
    /\ pc = "span_check"
    /\ mc_pc = "off"
    /\ \E position \in 0..Len(all_doc_tokens) :
        /\ mc_position' = position
        /\ mc_result' = <<check_is_max_context(doc_spans, Len(doc_spans), position)>>
    /\ mc_doc_spans' = doc_spans
    /\ mc_pc' = "outside"

\* the window loop, the calls above on its list, and the call of the program
\* at line 186, which BuildBase makes for the one span that passes SpanCheck
NextMaxContext ==
    \/ TokenizeDoc
    \/ WindowStep \/ WindowEnd \/ WindowUnbounded
    \/ MaxContextOfAll \/ MaxContextOfNone
    \/ SpanCheck
    \/ BuildBase

SpecMaxContext == InitWindow /\ [][NextMaxContext]_vars

\* the premise of C13, once max_tokens_for_doc is computed
WindowPremise ==
    /\ pc \in {"window", "window_unbounded", "span_check"}
    /\ max_tokens_for_doc >= 1
    /\ doc_stride >= 1

\* 0-based subword positions inside a span
SpanPositions(span) == span.start..(span.start + span.length - 1)

SpansWellFormed ==
    LET total == Len(all_doc_tokens)
        n == Len(doc_spans)
    IN /\ pc # "window_unbounded"
       /\ n <= total
       /\ \A i \in 1..n :
             /\ doc_spans[i].start >= 0
             /\ doc_spans[i].length >= 1
             /\ doc_spans[i].start + doc_spans[i].length <= total
       /\ \A i \in 1..(n - 1) : doc_spans[i].start < doc_spans[i + 1].start
       /\ n >= 1 => doc_spans[1].start = 0
       /\ (pc = "window" /\ n >= 1) =>
             /\ start_offset > doc_spans[n].start
             /\ start_offset < total
       /\ pc = "span_check" =>
             /\ total >= 1 => (n >= 1 /\ doc_spans[n].start + doc_spans[n].length = total)
             /\ UNION {SpanPositions(doc_spans[i]) : i \in 1..n} = 0..(total - 1)

\* C13: with max_tokens_for_doc >= 1 and doc_stride >= 1 the window loop
\* ends for every document, and in every state of the loop every span has
\* start >= 0, length >= 1 and start + length <= totalSubwordCount, the
\* starts strictly increase, the first span starts at 0, and at the end the
\* last span ends at totalSubwordCount and every subword position of the
\* document is in some span.
C13_WindowTerminatesWellFormed ==
    /\ [](WindowPremise => SpansWellFormed)
    /\ (pc = "window" /\ WindowPremise) ~> (pc = "span_check")

C13_Witness ==
    /\ pc = "span_check"
    /\ WindowPremise
    /\ Len(doc_spans) >= 3
    /\ doc_spans[2].start < doc_spans[1].start + doc_spans[1].length
    /\ doc_spans[2].length >= 2
    /\ doc_spans[Len(doc_spans)].start + doc_spans[Len(doc_spans)].length
          = Len(all_doc_tokens)

====
